---- MODULE Spec2Model ----
(***************************************************************************)
(* Model of the x86_64 EFI boot loader (loader.c): efi_main as a          *)
(* sequential state machine over the firmware boot services it calls,     *)
(* with the firmware's answers as nondeterministic inputs.                 *)
(***************************************************************************)
EXTENDS Integers, Sequences, FiniteSets, TLC

(* ------------------------------------------------------------------ *)
(* Bounds of the model                                                  *)
(* ------------------------------------------------------------------ *)
MaxTableEntries == 3      \* longest configuration-table list given to FindAcpiRsdp
MaxBootTableEntries == 1  \* longest configuration-table list in the runs of Spec
MaxMapChanges == 2        \* firmware-side memory-map mutations per run

(* ------------------------------------------------------------------ *)
(* Program constants                                                    *)
(* ------------------------------------------------------------------ *)
KERNEL_LOAD_ADDR == 1048576      \* 0x100000
MAX_MEMORY_MAP == 16384
EFI_PAGE_SIZE == 4096
FileInfoBufferSize == 512

(* ------------------------------------------------------------------ *)
(* EFI_STATUS: the high bit and the code (EFIERR(a) sets bit 63)        *)
(* ------------------------------------------------------------------ *)
EFI_SUCCESS == [hi |-> 0, code |-> 0]
EFIERR(a) == [hi |-> 1, code |-> a]
EFI_INVALID_PARAMETER == EFIERR(2)
EFI_BUFFER_TOO_SMALL == EFIERR(5)
EFI_DEVICE_ERROR == EFIERR(7)
EFI_NOT_FOUND == EFIERR(14)
EFI_ERROR(a) == a.hi = 1

(* ------------------------------------------------------------------ *)
(* UINT64 / UINTN: six little-endian limbs of 12 bits (the top limb     *)
(* holds the remaining 4 bits), so that 64-bit wrap-around is exact.    *)
(* ------------------------------------------------------------------ *)
Limbs == 1..6
TopLimbSize == 16
LimbSize(i) == IF i = 6 THEN TopLimbSize ELSE EFI_PAGE_SIZE
U64(l1, l2, l3, l4, l5, l6) == <<l1, l2, l3, l4, l5, l6>>
U64Zero == U64(0, 0, 0, 0, 0, 0)
U64Small(n) == U64(n % EFI_PAGE_SIZE, n \div EFI_PAGE_SIZE, 0, 0, 0, 0)

\* carry into limb i of a + b
RECURSIVE CarryIn(_, _, _)
CarryIn(a, b, i) ==
    IF i = 1 THEN 0
    ELSE (a[i-1] + b[i-1] + CarryIn(a, b, i-1)) \div LimbSize(i-1)

\* a + b in UINT64 arithmetic (the carry out of bit 63 is dropped)
AddU64(a, b) == [i \in Limbs |-> (a[i] + b[i] + CarryIn(a, b, i)) % LimbSize(i)]

\* a / 4096 in UINT64 arithmetic
Div4096(a) == U64(a[2], a[3], a[4], a[5], a[6], 0)

\* a < b as unsigned 64-bit numbers: compare from the top limb down
RECURSIVE LessFrom(_, _, _)
LessFrom(a, b, i) ==
    IF i = 0 THEN FALSE
    ELSE IF a[i] # b[i] THEN a[i] < b[i]
    ELSE LessFrom(a, b, i - 1)
LessU64(a, b) == LessFrom(a, b, 6)

\* (KernelSize + 4095) / 4096
PagesFor(KernelSize) == Div4096(AddU64(KernelSize, U64Small(EFI_PAGE_SIZE - 1)))

(* ------------------------------------------------------------------ *)
(* EFI_GUID and the configuration table                                 *)
(* ------------------------------------------------------------------ *)
Guid(d1hi, d1lo, d2, d3, d4) ==
    [Data1 |-> <<d1hi, d1lo>>, Data2 |-> d2, Data3 |-> d3, Data4 |-> d4]
Acpi20Data4 == <<188, 34, 0, 128, 199, 60, 136, 129>>
Acpi10Data4 == <<154, 22, 0, 144, 39, 63, 193, 77>>
Acpi20TableGuid == Guid(34920, 59505, 58609, 4563, Acpi20Data4)
Acpi10TableGuid == Guid(60317, 11568, 11656, 4563, Acpi10Data4)

\* the comparison made in the first loop of FindAcpiRsdp
IsAcpi20(guid) ==
    /\ guid.Data1 = Acpi20TableGuid.Data1
    /\ guid.Data2 = Acpi20TableGuid.Data2
    /\ guid.Data3 = Acpi20TableGuid.Data3

\* the comparison made in the second loop of FindAcpiRsdp
IsAcpi10(guid) ==
    /\ guid.Data1 = Acpi10TableGuid.Data1
    /\ guid.Data2 = Acpi10TableGuid.Data2
    /\ guid.Data3 = Acpi10TableGuid.Data3

\* for (i = 0; i < NumberOfTableEntries; i++) if (match) return VendorTable;
\* 0 stands for "the loop ended without a return"
RECURSIVE ScanFrom(_, _, _)
ScanFrom(table, i, which) ==
    IF i > Len(table) THEN [found |-> FALSE, ptr |-> 0]
    ELSE IF (which = 20 /\ IsAcpi20(table[i].VendorGuid))
            \/ (which = 10 /\ IsAcpi10(table[i].VendorGuid))
         THEN [found |-> TRUE, ptr |-> table[i].VendorTable]
         ELSE ScanFrom(table, i + 1, which)

FindAcpiRsdp(table) ==
    IF ScanFrom(table, 1, 20).found THEN ScanFrom(table, 1, 20).ptr
    ELSE IF ScanFrom(table, 1, 10).found THEN ScanFrom(table, 1, 10).ptr
    ELSE 0

(* ------------------------------------------------------------------ *)
(* Inputs the firmware can supply                                       *)
(* ------------------------------------------------------------------ *)
\* GUIDs found in configuration tables: the two ACPI GUIDs, a GUID that
\* shares Data1..Data3 with the ACPI 2.0 GUID and differs in Data4, and
\* the SMBIOS GUID
SmbiosTableGuid == Guid(60317, 11569, 11656, 4563, Acpi10Data4)
Acpi20Prefix == Guid(34920, 59505, 58609, 4563, Acpi10Data4)
TableGuids == {Acpi20TableGuid, Acpi10TableGuid, Acpi20Prefix, SmbiosTableGuid}

\* entry i of the table points at its own table: TableBase + i pages
TableBase == [g \in TableGuids |->
    CASE g = Acpi20TableGuid -> 983040
      [] g = Acpi10TableGuid -> 917504
      [] g = Acpi20Prefix -> 851968
      [] OTHER -> 720896]
GuidLists(max) == UNION {[1..n -> TableGuids] : n \in 0..max}
ConfigurationTables(max) ==
    {[i \in DOMAIN gl |->
        [VendorGuid |-> gl[i], VendorTable |-> TableBase[gl[i]] + i * EFI_PAGE_SIZE]]
     : gl \in GuidLists(max)}

\* file sizes: the low limbs around the page boundary, the high limbs
\* all clear or all set
FileSizes ==
    {U64(l1, 0, 0, 0, 0, 0) : l1 \in {0, 1}}
    \cup {U64(l1, 1, 0, 0, 0, 0) : l1 \in {0, 904}}
    \cup {U64(l1, 4095, 4095, 4095, 4095, 15) : l1 \in {0, 4095}}

\* addresses AllocateAnyPages hands out
AnyAddresses == {2097152, 50331648}

\* the descriptor size GetMemoryMap reports: sizeof(EFI_MEMORY_DESCRIPTOR)
\* of this header, or that of a firmware with a longer descriptor; it is
\* an output of every call, and nothing ties one call's value to the next
FwDescriptorSizes == {40, 48}
FwDescriptorCounts(ds) == {MAX_MEMORY_MAP \div ds, (MAX_MEMORY_MAP \div ds) + 1}

MemoryMapBufferAddr == "&MemoryMapBuffer"
BootInfoAddr == "&BootInfo"
BOOT_INFO_MAGIC == U64(1615, 1252, 1097, 1269, 591, 4)

(* ------------------------------------------------------------------ *)
(* State                                                                *)
(* ------------------------------------------------------------------ *)
VARIABLES
    pc,                 \* position in efi_main
    status,             \* EFI_STATUS status
    KernelSize,         \* UINTN KernelSize
    KernelAddr,         \* EFI_PHYSICAL_ADDRESS KernelAddr
    Pages,              \* UINTN Pages
    AcpiRsdp,           \* VOID *AcpiRsdp
    MemoryMapSize,      \* UINTN MemoryMapSize
    MapKey,             \* UINTN MapKey
    DescriptorSize,     \* UINTN DescriptorSize
    BootInfo,           \* static struct boot_info BootInfo
    ConfigurationTable, \* SystemTable->ConfigurationTable[0..NumberOfTableEntries-1]
    fwOpen,             \* file handles the firmware holds open
    fwAlloc,            \* page ranges the firmware has allocated to the loader
    fwMapKey,           \* the firmware's live memory-map key
    fwDescSize,         \* the firmware's descriptor size
    fwDescCount,        \* number of descriptors in the firmware's live map
    fwChanges,          \* map mutations so far
    bootServices,       \* TRUE until ExitBootServices succeeds
    calls,              \* firmware calls made, in order, with their results
    serial,             \* output written to COM1
    kernelCalls         \* invocations of the kernel entry point

vars == <<pc, status, KernelSize, KernelAddr, Pages, AcpiRsdp, MemoryMapSize,
          MapKey, DescriptorSize, BootInfo, ConfigurationTable, fwOpen, fwAlloc,
          fwMapKey, fwDescSize, fwDescCount, fwChanges, bootServices, calls,
          serial, kernelCalls>>

locals == <<KernelSize, KernelAddr, Pages, AcpiRsdp, MemoryMapSize, MapKey,
            DescriptorSize, BootInfo>>
fwMap == <<fwMapKey, fwDescSize, fwDescCount, fwChanges>>

ZeroBootInfo ==
    [magic |-> U64Zero, mem_map_addr |-> 0, mem_map_size |-> 0,
     mem_map_desc_size |-> 0, framebuffer_addr |-> 0, framebuffer_width |-> 0,
     framebuffer_height |-> 0, framebuffer_pitch |-> 0, acpi_rsdp |-> 0,
     num_cpus |-> 0]

\* locals are unassigned on entry; none is read before its assignment, so
\* a zero stands for the unassigned value
Entry(tables) ==
    /\ pc = "HandleProtocolLoadedImage"
    /\ status = EFI_SUCCESS
    /\ KernelSize = U64Zero
    /\ KernelAddr = 0
    /\ Pages = U64Zero
    /\ AcpiRsdp = 0
    /\ MemoryMapSize = 0
    /\ MapKey = 0
    /\ DescriptorSize = 0
    /\ BootInfo = ZeroBootInfo
    /\ ConfigurationTable \in tables
    /\ fwOpen = {}
    /\ fwAlloc = {}
    /\ fwMapKey = 1
    /\ fwDescSize \in FwDescriptorSizes
    /\ fwDescCount \in FwDescriptorCounts(fwDescSize)
    /\ fwChanges = 0
    /\ bootServices = TRUE
    /\ calls = <<>>
    /\ serial = <<>>
    /\ kernelCalls = <<>>

Init == Entry(ConfigurationTables(MaxBootTableEntries))

\* entry with the longer configuration tables that exercise FindAcpiRsdp
InitAcpi == Entry(ConfigurationTables(MaxTableEntries))

serial_puts(out, s) == Append(out, <<"puts", s>>)
serial_puthex(out, n) == Append(out, <<"puthex", n>>)
serial_putint(out, n) == Append(out, <<"putint", n>>)
Banner ==
    serial_puts(serial_puts(serial_puts(serial_puts(<<>>, "\n"),
        "========================================\n"),
        "  x86_64 EFI Bootloader\n"),
        "========================================\n\n")

Call(c) == calls' = Append(calls, c)
Say(s) == serial' = serial_puts(serial, s)

(* ------------------------------------------------------------------ *)
(* efi_main, one action per firmware call and the check that follows    *)
(* ------------------------------------------------------------------ *)
\* serial_init, the banner, HandleProtocol(ImageHandle, LoadedImageProtocol)
HandleProtocolLoadedImage ==
    /\ pc = "HandleProtocolLoadedImage"
    /\ \E st \in {EFI_SUCCESS, EFIERR(3)} :
        /\ status' = st
        /\ Call([fn |-> "HandleProtocol", protocol |-> "LoadedImageProtocol", st |-> st])
        /\ IF EFI_ERROR(st)
           THEN /\ serial' = serial_puts(serial_puts(Banner,
                        "Getting loaded image protocol... "), "FAILED\n")
                /\ pc' = "halt"
           ELSE /\ serial' = serial_puts(serial_puts(Banner,
                        "Getting loaded image protocol... "), "OK\n")
                /\ pc' = "HandleProtocolFileSystem"
    /\ UNCHANGED <<locals, ConfigurationTable, fwOpen, fwAlloc, fwMap,
                   bootServices, kernelCalls>>

\* a file-system lookup whose status is not looked at
HandleProtocolFileSystemUnchecked ==
    /\ pc = "HandleProtocolFileSystem"
    /\ \E st \in {EFI_SUCCESS, EFIERR(3)} :
        /\ status' = st
        /\ Call([fn |-> "HandleProtocol", protocol |-> "SimpleFileSystemProtocol", st |-> st])
        /\ serial' = serial_puts(serial_puts(serial,
                "Getting file system protocol... "), "OK\n")
        /\ pc' = "OpenVolume"
    /\ UNCHANGED <<locals, ConfigurationTable, fwOpen, fwAlloc, fwMap,
                   bootServices, kernelCalls>>

\* HandleProtocol(LoadedImage->DeviceHandle, SimpleFileSystemProtocol)
HandleProtocolFileSystem ==
    /\ pc = "HandleProtocolFileSystem"
    /\ \E st \in {EFI_SUCCESS, EFIERR(3)} :
        /\ status' = st
        /\ Call([fn |-> "HandleProtocol", protocol |-> "SimpleFileSystemProtocol", st |-> st])
        /\ IF EFI_ERROR(st)
           THEN /\ serial' = serial_puts(serial_puts(serial,
                        "Getting file system protocol... "), "FAILED\n")
                /\ pc' = "halt"
           ELSE /\ serial' = serial_puts(serial_puts(serial,
                        "Getting file system protocol... "), "OK\n")
                /\ pc' = "OpenVolume"
    /\ UNCHANGED <<locals, ConfigurationTable, fwOpen, fwAlloc, fwMap,
                   bootServices, kernelCalls>>

\* Volume->OpenVolume(Volume, &RootDir)
OpenVolume ==
    /\ pc = "OpenVolume"
    /\ \E st \in {EFI_SUCCESS, EFI_DEVICE_ERROR} :
        /\ status' = st
        /\ Call([fn |-> "OpenVolume", st |-> st])
        /\ IF EFI_ERROR(st)
           THEN /\ serial' = serial_puts(serial_puts(serial,
                        "Opening root directory... "), "FAILED\n")
                /\ fwOpen' = fwOpen
                /\ pc' = "halt"
           ELSE /\ serial' = serial_puts(serial_puts(serial,
                        "Opening root directory... "), "OK\n")
                /\ fwOpen' = fwOpen \cup {"RootDir"}
                /\ pc' = "OpenKernelFile"
    /\ UNCHANGED <<locals, ConfigurationTable, fwAlloc, fwMap, bootServices,
                   kernelCalls>>

\* RootDir->Open(RootDir, &KernelFile, KERNEL_PATH, EFI_FILE_MODE_READ, 0)
OpenKernelFile ==
    /\ pc = "OpenKernelFile"
    /\ \E st \in {EFI_SUCCESS, EFI_NOT_FOUND} :
        /\ status' = st
        /\ Call([fn |-> "Open", path |-> "\\kernel.bin", st |-> st])
        /\ IF EFI_ERROR(st)
           THEN /\ serial' = serial_puts(serial_puts(serial,
                        "Opening kernel file... "), "FAILED - kernel.bin not found\n")
                /\ fwOpen' = fwOpen
                /\ pc' = "halt"
           ELSE /\ serial' = serial_puts(serial_puts(serial,
                        "Opening kernel file... "), "OK\n")
                /\ fwOpen' = fwOpen \cup {"KernelFile"}
                /\ pc' = "GetInfo"
    /\ UNCHANGED <<locals, ConfigurationTable, fwAlloc, fwMap, bootServices,
                   kernelCalls>>

\* a GetInfo whose status is not looked at
GetInfoUnchecked ==
    /\ pc = "GetInfo"
    /\ \E st \in {EFI_SUCCESS, EFI_BUFFER_TOO_SMALL, EFI_DEVICE_ERROR}, FileSize \in FileSizes :
        /\ status' = st
        /\ Call([fn |-> "GetInfo", size |-> FileInfoBufferSize, st |-> st,
                 FileSize |-> FileSize])
        /\ serial' = serial_puts(serial_putint(serial_puts(serial_puts(serial,
                "Getting kernel file info... "), "OK ("), FileSize), " bytes)\n")
        /\ KernelSize' = FileSize
        /\ pc' = "AllocateAddress"
    /\ UNCHANGED <<KernelAddr, Pages, AcpiRsdp, MemoryMapSize, MapKey,
                   DescriptorSize, BootInfo, ConfigurationTable, fwOpen, fwAlloc,
                   fwMap, bootServices, kernelCalls>>

\* KernelFile->GetInfo(KernelFile, &FileInfoGuid, &FileInfoSize, FileInfoBuffer)
\* and KernelSize = FileInfo->FileSize
GetInfo ==
    /\ pc = "GetInfo"
    /\ \E st \in {EFI_SUCCESS, EFI_BUFFER_TOO_SMALL, EFI_DEVICE_ERROR}, FileSize \in FileSizes :
        /\ status' = st
        /\ Call([fn |-> "GetInfo", size |-> FileInfoBufferSize, st |-> st,
                 FileSize |-> IF EFI_ERROR(st) THEN U64Zero ELSE FileSize])
        /\ IF EFI_ERROR(st)
           THEN /\ serial' = serial_puts(serial_puts(serial,
                        "Getting kernel file info... "), "FAILED\n")
                /\ KernelSize' = KernelSize
                /\ pc' = "halt"
           ELSE /\ serial' = serial_puts(serial_putint(serial_puts(serial_puts(serial,
                        "Getting kernel file info... "), "OK ("), FileSize), " bytes)\n")
                /\ KernelSize' = FileSize
                /\ pc' = "AllocateAddress"
    /\ UNCHANGED <<KernelAddr, Pages, AcpiRsdp, MemoryMapSize, MapKey,
                   DescriptorSize, BootInfo, ConfigurationTable, fwOpen, fwAlloc,
                   fwMap, bootServices, kernelCalls>>

\* a fixed-address attempt followed by the any-address attempt whatever
\* its status
AllocateAddressAlwaysFallback ==
    /\ pc = "AllocateAddress"
    /\ Pages' = PagesFor(KernelSize)
    /\ KernelAddr' = KERNEL_LOAD_ADDR
    /\ \E st \in {EFI_SUCCESS, EFI_NOT_FOUND} :
        /\ status' = st
        /\ Call([fn |-> "AllocatePages", type |-> "AllocateAddress",
                 memtype |-> "EfiLoaderCode", pages |-> Pages',
                 memory |-> KERNEL_LOAD_ADDR, st |-> st])
        /\ serial' = serial_puts(serial_puthex(serial_puts(serial,
                "Allocating memory at "), KERNEL_LOAD_ADDR), "... ")
        /\ fwAlloc' = IF EFI_ERROR(st) THEN fwAlloc
                      ELSE fwAlloc \cup {[addr |-> KERNEL_LOAD_ADDR, pages |-> Pages']}
        /\ pc' = "AllocateAnyPages"
    /\ UNCHANGED <<KernelSize, AcpiRsdp, MemoryMapSize, MapKey, DescriptorSize,
                   BootInfo, ConfigurationTable, fwOpen, fwMap, bootServices,
                   kernelCalls>>

\* KernelAddr = KERNEL_LOAD_ADDR; Pages = (KernelSize + 4095) / 4096;
\* AllocatePages(AllocateAddress, EfiLoaderCode, Pages, &KernelAddr)
AllocateAddress ==
    /\ pc = "AllocateAddress"
    /\ Pages' = PagesFor(KernelSize)
    /\ KernelAddr' = KERNEL_LOAD_ADDR
    /\ \E st \in {EFI_SUCCESS, EFI_NOT_FOUND} :
        /\ status' = st
        /\ Call([fn |-> "AllocatePages", type |-> "AllocateAddress",
                 memtype |-> "EfiLoaderCode", pages |-> Pages',
                 memory |-> KERNEL_LOAD_ADDR, st |-> st])
        /\ IF EFI_ERROR(st)
           THEN /\ serial' = serial_puts(serial_puthex(serial_puts(serial,
                        "Allocating memory at "), KERNEL_LOAD_ADDR), "... ")
                /\ fwAlloc' = fwAlloc
                /\ pc' = "AllocateAnyPages"
           ELSE /\ serial' = serial_puts(serial_puthex(serial_puts(
                        serial_puts(serial_puthex(serial_puts(serial,
                        "Allocating memory at "), KERNEL_LOAD_ADDR), "... "),
                        "OK at "), KERNEL_LOAD_ADDR), "\n")
                /\ fwAlloc' = fwAlloc \cup {[addr |-> KERNEL_LOAD_ADDR, pages |-> Pages']}
                /\ pc' = "Read"
    /\ UNCHANGED <<KernelSize, AcpiRsdp, MemoryMapSize, MapKey, DescriptorSize,
                   BootInfo, ConfigurationTable, fwOpen, fwMap, bootServices,
                   kernelCalls>>

\* AllocatePages(AllocateAnyPages, EfiLoaderCode, Pages, &KernelAddr)
AllocateAnyPages ==
    /\ pc = "AllocateAnyPages"
    /\ \E st \in {EFI_SUCCESS, EFIERR(9)}, addr \in AnyAddresses :
        /\ status' = st
        /\ Call([fn |-> "AllocatePages", type |-> "AllocateAnyPages",
                 memtype |-> "EfiLoaderCode", pages |-> Pages,
                 memory |-> IF EFI_ERROR(st) THEN KernelAddr ELSE addr, st |-> st])
        /\ IF EFI_ERROR(st)
           THEN /\ serial' = serial_puts(serial_puts(serial,
                        "(trying any address) "), "FAILED\n")
                /\ KernelAddr' = KernelAddr
                /\ fwAlloc' = fwAlloc
                /\ pc' = "halt"
           ELSE /\ serial' = serial_puts(serial_puthex(serial_puts(serial_puts(serial,
                        "(trying any address) "), "OK at "), addr), "\n")
                /\ KernelAddr' = addr
                /\ fwAlloc' = fwAlloc \cup {[addr |-> addr, pages |-> Pages]}
                /\ pc' = "Read"
    /\ UNCHANGED <<KernelSize, Pages, AcpiRsdp, MemoryMapSize, MapKey,
                   DescriptorSize, BootInfo, ConfigurationTable, fwOpen, fwMap,
                   bootServices, kernelCalls>>

\* byte counts a successful Read can report for a request of n bytes:
\* all of them, or fewer (end of file reached early)
ShortCounts == {U64Zero, U64Small(EFI_PAGE_SIZE)}
ReadCounts(n) == {n} \cup {m \in ShortCounts : LessU64(m, n)}

\* a Read whose status is not looked at
ReadUnchecked ==
    /\ pc = "Read"
    /\ \E st \in {EFI_SUCCESS, EFI_DEVICE_ERROR} :
       \E got \in IF EFI_ERROR(st) THEN {KernelSize} ELSE ReadCounts(KernelSize) :
        /\ status' = st
        /\ Call([fn |-> "Read", size |-> KernelSize, buffer |-> KernelAddr,
                 got |-> got, st |-> st])
        /\ KernelSize' = got
        /\ serial' = serial_puts(serial_puts(serial,
                "Loading kernel into memory... "), "OK\n")
        /\ pc' = "CloseKernelFile"
    /\ UNCHANGED <<KernelAddr, Pages, AcpiRsdp, MemoryMapSize, MapKey,
                   DescriptorSize, BootInfo, ConfigurationTable, fwOpen, fwAlloc,
                   fwMap, bootServices, kernelCalls>>

\* a Read that is issued again for as long as the file came back short
ReadUntilComplete ==
    /\ pc = "Read"
    /\ \E st \in {EFI_SUCCESS, EFI_DEVICE_ERROR} :
       \E got \in IF EFI_ERROR(st) THEN {KernelSize} ELSE ReadCounts(KernelSize) :
        /\ status' = st
        /\ Call([fn |-> "Read", size |-> KernelSize, buffer |-> KernelAddr,
                 got |-> got, st |-> st])
        /\ KernelSize' = got
        /\ IF EFI_ERROR(st)
           THEN /\ serial' = serial_puts(serial_puts(serial,
                        "Loading kernel into memory... "), "FAILED\n")
                /\ pc' = "halt"
           ELSE /\ serial' = serial_puts(serial_puts(serial,
                        "Loading kernel into memory... "), "OK\n")
                /\ pc' = IF got = KernelSize THEN "CloseKernelFile" ELSE "Read"
    /\ UNCHANGED <<KernelAddr, Pages, AcpiRsdp, MemoryMapSize, MapKey,
                   DescriptorSize, BootInfo, ConfigurationTable, fwOpen, fwAlloc,
                   fwMap, bootServices, kernelCalls>>

\* KernelFile->Read(KernelFile, &KernelSize, (VOID *)KernelAddr)
Read ==
    /\ pc = "Read"
    /\ \E st \in {EFI_SUCCESS, EFI_DEVICE_ERROR} :
       \E got \in IF EFI_ERROR(st) THEN {KernelSize} ELSE ReadCounts(KernelSize) :
        /\ status' = st
        /\ Call([fn |-> "Read", size |-> KernelSize, buffer |-> KernelAddr,
                 got |-> got, st |-> st])
        /\ KernelSize' = got
        /\ IF EFI_ERROR(st)
           THEN /\ serial' = serial_puts(serial_puts(serial,
                        "Loading kernel into memory... "), "FAILED\n")
                /\ pc' = "halt"
           ELSE /\ serial' = serial_puts(serial_puts(serial,
                        "Loading kernel into memory... "), "OK\n")
                /\ pc' = "CloseKernelFile"
    /\ UNCHANGED <<KernelAddr, Pages, AcpiRsdp, MemoryMapSize, MapKey,
                   DescriptorSize, BootInfo, ConfigurationTable, fwOpen, fwAlloc,
                   fwMap, bootServices, kernelCalls>>

\* KernelFile->Close(KernelFile); the result is not looked at
CloseKernelFile ==
    /\ pc = "CloseKernelFile"
    /\ Call([fn |-> "Close", file |-> "KernelFile", st |-> EFI_SUCCESS])
    /\ fwOpen' = fwOpen \ {"KernelFile"}
    /\ pc' = "CloseRootDir"
    /\ UNCHANGED <<status, locals, ConfigurationTable, fwAlloc, fwMap,
                   bootServices, serial, kernelCalls>>

\* the root directory left open
CloseRootDirSkipped ==
    /\ pc = "CloseRootDir"
    /\ pc' = "FindAcpiRsdp"
    /\ UNCHANGED <<status, locals, ConfigurationTable, fwOpen, fwAlloc, fwMap,
                   bootServices, calls, serial, kernelCalls>>

\* RootDir->Close(RootDir); the result is not looked at
CloseRootDir ==
    /\ pc = "CloseRootDir"
    /\ Call([fn |-> "Close", file |-> "RootDir", st |-> EFI_SUCCESS])
    /\ fwOpen' = fwOpen \ {"RootDir"}
    /\ pc' = "FindAcpiRsdp"
    /\ UNCHANGED <<status, locals, ConfigurationTable, fwAlloc, fwMap,
                   bootServices, serial, kernelCalls>>

\* AcpiRsdp = FindAcpiRsdp(SystemTable) and its report
LookForAcpiRsdp ==
    /\ pc = "FindAcpiRsdp"
    /\ AcpiRsdp' = FindAcpiRsdp(ConfigurationTable)
    /\ IF AcpiRsdp' # 0
       THEN serial' = serial_puts(serial_puthex(serial_puts(serial_puts(serial,
                "Looking for ACPI RSDP... "), "OK at "), AcpiRsdp'), "\n")
       ELSE serial' = serial_puts(serial_puts(serial,
                "Looking for ACPI RSDP... "), "NOT FOUND\n")
    /\ pc' = "GetMemoryMap"
    /\ UNCHANGED <<status, KernelSize, KernelAddr, Pages, MemoryMapSize, MapKey,
                   DescriptorSize, BootInfo, ConfigurationTable, fwOpen, fwAlloc,
                   fwMap, bootServices, calls, kernelCalls>>

(* ------------------------------------------------------------------ *)
(* The firmware's GetMemoryMap and ExitBootServices                     *)
(* ------------------------------------------------------------------ *)
fwMapSize == fwDescSize * fwDescCount

\* GetMemoryMap with a buffer of bufSize bytes: EFI_BUFFER_TOO_SMALL when
\* the live map does not fit, and the size needed is stored either way
FwGetMemoryMapStatus(bufSize) ==
    IF fwMapSize > bufSize THEN EFI_BUFFER_TOO_SMALL ELSE EFI_SUCCESS

\* ExitBootServices(ImageHandle, key) succeeds exactly when key is current
FwExitStatus(key) ==
    IF key = fwMapKey THEN EFI_SUCCESS ELSE EFI_INVALID_PARAMETER

\* the firmware changes its memory map on its own, between a capture and
\* the exit call that uses it; a change at any other point shows only in
\* the key and size the next capture returns, which Init and the change
\* before it already choose
FirmwareMapChange ==
    /\ bootServices
    /\ pc \in {"ExitBootServices", "ExitBootServicesRetry"}
    /\ fwChanges < MaxMapChanges
    /\ fwChanges' = fwChanges + 1
    /\ fwMapKey' = fwMapKey + 1
    /\ fwDescSize' \in FwDescriptorSizes
    /\ fwDescCount' \in FwDescriptorCounts(fwDescSize')
    /\ UNCHANGED <<pc, status, locals, ConfigurationTable, fwOpen, fwAlloc,
                   bootServices, calls, serial, kernelCalls>>

\* what one GetMemoryMap call can hand back: on failure the firmware
\* stores the size needed, and may or may not have stored the key and
\* the descriptor size
GetMemoryMapOutcomes(bufSize, oldKey, oldDesc) ==
    IF EFI_ERROR(FwGetMemoryMapStatus(bufSize))
    THEN {[st |-> FwGetMemoryMapStatus(bufSize), size |-> fwMapSize, key |-> k, desc |-> d]
            : k \in {oldKey, fwMapKey}, d \in {oldDesc, fwDescSize}}
    ELSE {[st |-> EFI_SUCCESS, size |-> fwMapSize, key |-> fwMapKey, desc |-> fwDescSize]}

\* MemoryMapSize = sizeof(MemoryMapBuffer); GetMemoryMap(...); on success
\* the boot info is filled in
GetMemoryMap ==
    /\ pc = "GetMemoryMap"
    /\ \E r \in GetMemoryMapOutcomes(MAX_MEMORY_MAP, MapKey, DescriptorSize) :
        /\ status' = r.st
        /\ Call([fn |-> "GetMemoryMap", size |-> MAX_MEMORY_MAP, st |-> r.st,
                 outSize |-> r.size, outKey |-> r.key, outDesc |-> r.desc])
        /\ MemoryMapSize' = r.size
        /\ MapKey' = r.key
        /\ DescriptorSize' = r.desc
        /\ IF EFI_ERROR(r.st)
           THEN /\ serial' = serial_puts(serial_puts(serial,
                        "\nPreparing to exit boot services...\n"),
                        "Failed to get memory map\n")
                /\ BootInfo' = BootInfo
                /\ pc' = "halt"
           ELSE /\ serial' = serial_puts(serial_puts(serial,
                        "\nPreparing to exit boot services...\n"),
                        "Exiting boot services...\n")
                /\ BootInfo' =
                    [magic |-> BOOT_INFO_MAGIC,
                     mem_map_addr |-> MemoryMapBufferAddr,
                     mem_map_size |-> r.size,
                     mem_map_desc_size |-> r.desc,
                     framebuffer_addr |-> 0,
                     framebuffer_width |-> 0,
                     framebuffer_height |-> 0,
                     framebuffer_pitch |-> 0,
                     acpi_rsdp |-> AcpiRsdp,
                     num_cpus |-> 0]
                /\ pc' = "ExitBootServices"
    /\ UNCHANGED <<KernelSize, KernelAddr, Pages, AcpiRsdp, ConfigurationTable,
                   fwOpen, fwAlloc, fwMap, bootServices, kernelCalls>>

\* an exit call followed by the re-capture whatever its status
ExitBootServicesAlwaysRetry ==
    /\ pc = "ExitBootServices"
    /\ status' = FwExitStatus(MapKey)
    /\ Call([fn |-> "ExitBootServices", key |-> MapKey, st |-> status'])
    /\ bootServices' = EFI_ERROR(status')
    /\ pc' = "GetMemoryMapRetry"
    /\ UNCHANGED <<locals, ConfigurationTable, fwOpen, fwAlloc, fwMap, serial,
                   kernelCalls>>

\* status = BS->ExitBootServices(ImageHandle, MapKey)
ExitBootServices ==
    /\ pc = "ExitBootServices"
    /\ status' = FwExitStatus(MapKey)
    /\ Call([fn |-> "ExitBootServices", key |-> MapKey, st |-> status'])
    /\ bootServices' = EFI_ERROR(status')
    /\ pc' = IF EFI_ERROR(status') THEN "GetMemoryMapRetry" ELSE "CheckExit"
    /\ UNCHANGED <<locals, ConfigurationTable, fwOpen, fwAlloc, fwMap, serial,
                   kernelCalls>>

\* a retry that fills the boot info afresh and sets only the map size
GetMemoryMapRetryResetsInfo ==
    /\ pc = "GetMemoryMapRetry"
    /\ \E r \in GetMemoryMapOutcomes(MAX_MEMORY_MAP, MapKey, DescriptorSize) :
        /\ Call([fn |-> "GetMemoryMap", size |-> MAX_MEMORY_MAP, st |-> r.st,
                 outSize |-> r.size, outKey |-> r.key, outDesc |-> r.desc])
        /\ MemoryMapSize' = r.size
        /\ MapKey' = r.key
        /\ DescriptorSize' = r.desc
        /\ BootInfo' = [ZeroBootInfo EXCEPT !.magic = BOOT_INFO_MAGIC,
                                            !.mem_map_addr = MemoryMapBufferAddr,
                                            !.mem_map_size = r.size,
                                            !.mem_map_desc_size = r.desc]
    /\ pc' = "ExitBootServicesRetry"
    /\ UNCHANGED <<status, KernelSize, KernelAddr, Pages, AcpiRsdp,
                   ConfigurationTable, fwOpen, fwAlloc, fwMap, bootServices,
                   serial, kernelCalls>>

\* the retry: GetMemoryMap again, its status dropped, then
\* BootInfo.mem_map_size = MemoryMapSize
GetMemoryMapRetry ==
    /\ pc = "GetMemoryMapRetry"
    /\ \E r \in GetMemoryMapOutcomes(MAX_MEMORY_MAP, MapKey, DescriptorSize) :
        /\ Call([fn |-> "GetMemoryMap", size |-> MAX_MEMORY_MAP, st |-> r.st,
                 outSize |-> r.size, outKey |-> r.key, outDesc |-> r.desc])
        /\ MemoryMapSize' = r.size
        /\ MapKey' = r.key
        /\ DescriptorSize' = r.desc
        /\ BootInfo' = [BootInfo EXCEPT !.mem_map_size = r.size]
    /\ pc' = "ExitBootServicesRetry"
    /\ UNCHANGED <<status, KernelSize, KernelAddr, Pages, AcpiRsdp,
                   ConfigurationTable, fwOpen, fwAlloc, fwMap, bootServices,
                   serial, kernelCalls>>

\* a retry that loops for as long as the exit call fails
ExitBootServicesRetryLoop ==
    /\ pc = "ExitBootServicesRetry"
    /\ status' = FwExitStatus(MapKey)
    /\ Call([fn |-> "ExitBootServices", key |-> MapKey, st |-> status'])
    /\ bootServices' = EFI_ERROR(status')
    /\ pc' = IF EFI_ERROR(status') THEN "GetMemoryMapRetry" ELSE "CheckExit"
    /\ UNCHANGED <<locals, ConfigurationTable, fwOpen, fwAlloc, fwMap, serial,
                   kernelCalls>>

\* status = BS->ExitBootServices(ImageHandle, MapKey), second time
ExitBootServicesRetry ==
    /\ pc = "ExitBootServicesRetry"
    /\ status' = FwExitStatus(MapKey)
    /\ Call([fn |-> "ExitBootServices", key |-> MapKey, st |-> status'])
    /\ bootServices' = EFI_ERROR(status')
    /\ pc' = "CheckExit"
    /\ UNCHANGED <<locals, ConfigurationTable, fwOpen, fwAlloc, fwMap, serial,
                   kernelCalls>>

\* a failed exit sent to the halt label, which reports the failure
CheckExitGotoHalt ==
    /\ pc = "CheckExit"
    /\ IF EFI_ERROR(status)
       THEN /\ pc' = "halt"
            /\ serial' = serial
       ELSE /\ pc' = "KernelEntry"
            /\ serial' = serial_puts(serial_puthex(serial_puts(serial,
                    "Jumping to kernel at "), KernelAddr), "...\n\n")
    /\ UNCHANGED <<status, locals, ConfigurationTable, fwOpen, fwAlloc, fwMap,
                   bootServices, calls, kernelCalls>>

\* if (EFI_ERROR(status)) while (1) hlt; else announce the jump
CheckExit ==
    /\ pc = "CheckExit"
    /\ IF EFI_ERROR(status)
       THEN /\ pc' = "hlt_exit_failed"
            /\ serial' = serial
       ELSE /\ pc' = "KernelEntry"
            /\ serial' = serial_puts(serial_puthex(serial_puts(serial,
                    "Jumping to kernel at "), KernelAddr), "...\n\n")
    /\ UNCHANGED <<status, locals, ConfigurationTable, fwOpen, fwAlloc, fwMap,
                   bootServices, calls, kernelCalls>>

\* an entry point fixed at the load address
KernelEntryAtLoadAddr ==
    /\ pc = "KernelEntry"
    /\ kernelCalls' = Append(kernelCalls,
            [addr |-> KERNEL_LOAD_ADDR, arg |-> BootInfoAddr, info |-> BootInfo])
    /\ pc' = "kernel"
    /\ UNCHANGED <<status, locals, ConfigurationTable, fwOpen, fwAlloc, fwMap,
                   bootServices, calls, serial>>

\* KernelEntry = (kernel_entry_t)KernelAddr; KernelEntry(&BootInfo)
KernelEntry ==
    /\ pc = "KernelEntry"
    /\ kernelCalls' = Append(kernelCalls,
            [addr |-> KernelAddr, arg |-> BootInfoAddr, info |-> BootInfo])
    /\ pc' = "kernel"
    /\ UNCHANGED <<status, locals, ConfigurationTable, fwOpen, fwAlloc, fwMap,
                   bootServices, calls, serial>>

\* a return of the kernel that falls through to the halt label
KernelReturnsToHalt ==
    /\ pc = "kernel"
    /\ pc' = "halt"
    /\ UNCHANGED <<status, locals, ConfigurationTable, fwOpen, fwAlloc, fwMap,
                   bootServices, calls, serial, kernelCalls>>

\* the kernel hands control back, which it is not meant to do
KernelReturns ==
    /\ pc = "kernel"
    /\ pc' = "hlt_kernel_returned"
    /\ UNCHANGED <<status, locals, ConfigurationTable, fwOpen, fwAlloc, fwMap,
                   bootServices, calls, serial, kernelCalls>>

\* a halt label that reports the failure and returns EFI_LOAD_ERROR
HaltReturns ==
    /\ pc = "halt"
    /\ Say("\nBoot failed. System halted.\n")
    /\ pc' = "returned"
    /\ UNCHANGED <<status, locals, ConfigurationTable, fwOpen, fwAlloc, fwMap,
                   bootServices, calls, kernelCalls>>

\* a halt label that gives the kernel's pages back to the firmware
HaltFreesPages ==
    /\ pc = "halt"
    /\ Say("\nBoot failed. System halted.\n")
    /\ IF fwAlloc = {} \/ ~bootServices
       THEN UNCHANGED <<calls, fwAlloc>>
       ELSE /\ Call([fn |-> "FreePages", memory |-> KernelAddr, pages |-> Pages,
                     st |-> EFI_SUCCESS])
            /\ fwAlloc' = {}
    /\ pc' = "hlt_boot_failed"
    /\ UNCHANGED <<status, locals, ConfigurationTable, fwOpen, fwMap,
                   bootServices, kernelCalls>>

\* halt: serial_puts("\nBoot failed. System halted.\n")
Halt ==
    /\ pc = "halt"
    /\ Say("\nBoot failed. System halted.\n")
    /\ pc' = "hlt_boot_failed"
    /\ UNCHANGED <<status, locals, ConfigurationTable, fwOpen, fwAlloc, fwMap,
                   bootServices, calls, kernelCalls>>

\* while (1) { hlt }: the three loops of efi_main
HltLoops == {"hlt_exit_failed", "hlt_kernel_returned", "hlt_boot_failed"}
Hlt ==
    /\ pc \in HltLoops
    /\ UNCHANGED vars

Next ==
    \/ HandleProtocolLoadedImage
    \/ HandleProtocolFileSystem
    \/ OpenVolume
    \/ OpenKernelFile
    \/ GetInfo
    \/ AllocateAddress
    \/ AllocateAnyPages
    \/ Read
    \/ CloseKernelFile
    \/ CloseRootDir
    \/ LookForAcpiRsdp
    \/ GetMemoryMap
    \/ ExitBootServices
    \/ GetMemoryMapRetry
    \/ ExitBootServicesRetry
    \/ CheckExit
    \/ KernelEntry
    \/ KernelReturns
    \/ Halt
    \/ Hlt
    \/ FirmwareMapChange

Spec == Init /\ [][Next]_vars

SpecAcpi == InitAcpi /\ [][Next]_vars

\* the steps efi_main takes itself; each one is a firmware call that
\* returns, a serial write that completes, or plain computation, so a
\* step that can be taken is taken
LoaderStep ==
    \/ HandleProtocolLoadedImage
    \/ HandleProtocolFileSystem
    \/ OpenVolume
    \/ OpenKernelFile
    \/ GetInfo
    \/ AllocateAddress
    \/ AllocateAnyPages
    \/ Read
    \/ CloseKernelFile
    \/ CloseRootDir
    \/ LookForAcpiRsdp
    \/ GetMemoryMap
    \/ ExitBootServices
    \/ GetMemoryMapRetry
    \/ ExitBootServicesRetry
    \/ CheckExit
    \/ KernelEntry
    \/ Halt

SpecLive == Init /\ [][Next]_vars /\ WF_vars(LoaderStep)

(* ------------------------------------------------------------------ *)
(* Reading the call log                                                 *)
(* ------------------------------------------------------------------ *)
CallsOf(f) == SelectSeq(calls, LAMBDA c : c.fn = f)
ExitCalls == CallsOf("ExitBootServices")
MapCalls == CallsOf("GetMemoryMap")
AllocCalls == CallsOf("AllocatePages")
ReadCalls == CallsOf("Read")
Failed(c) == EFI_ERROR(c.st)
ExitSucceeded == \E i \in 1..Len(ExitCalls) : ~Failed(ExitCalls[i])
KernelInvoked == kernelCalls # <<>>
BootFailedStates == {"halt", "hlt_boot_failed"}

(* ------------------------------------------------------------------ *)
(* C1: ExitBootServices is called at most twice and GetMemoryMap at     *)
(* most twice; the second exit call is made only after the first one    *)
(* failed; when both have failed the loader is on its way into the hlt  *)
(* loop of line 318 (the status it tests is an error) or in it, and the *)
(* kernel has not been invoked.                                         *)
(* ------------------------------------------------------------------ *)
C1_ExitRetriedOnce ==
    /\ Len(ExitCalls) <= 2
    /\ Len(MapCalls) <= 2
    /\ Len(ExitCalls) = 2 => Failed(ExitCalls[1])
    /\ (Len(ExitCalls) = 2 /\ Failed(ExitCalls[2])) =>
        /\ pc \in {"CheckExit", "hlt_exit_failed"}
        /\ EFI_ERROR(status)
        /\ ~KernelInvoked

C1_Witness ==
    /\ Len(ExitCalls) = 2
    /\ Failed(ExitCalls[1])
    /\ Failed(ExitCalls[2])
    /\ Len(MapCalls) = 2
    /\ pc = "hlt_exit_failed"

(* ------------------------------------------------------------------ *)
(* C2: a successful ExitBootServices call is the last firmware call of  *)
(* the run: nothing follows it in the call log, in any later state,     *)
(* the states after a return of the kernel included.                    *)
(* ------------------------------------------------------------------ *)
C2_NoCallAfterExit ==
    \A i \in 1..Len(calls) :
        (calls[i].fn = "ExitBootServices" /\ ~Failed(calls[i])) => i = Len(calls)

C2_Witness ==
    /\ pc = "hlt_kernel_returned"
    /\ ExitSucceeded
    /\ ~bootServices

(* ------------------------------------------------------------------ *)
(* C3: the kernel is invoked only when both HandleProtocol calls,       *)
(* OpenVolume, Open, GetInfo, one AllocatePages call, Read, the first   *)
(* GetMemoryMap and one ExitBootServices call returned success; when    *)
(* one of these stages has failed (the first exit call aside) the       *)
(* loader is halting or halted and the kernel has not been invoked.     *)
(* ------------------------------------------------------------------ *)
Succeeded(f, n) ==
    /\ Len(CallsOf(f)) = n
    /\ \A i \in 1..n : ~Failed(CallsOf(f)[i])

StageFailed ==
    \/ \E i \in 1..Len(calls) :
        /\ Failed(calls[i])
        /\ \/ calls[i].fn \in {"HandleProtocol", "OpenVolume", "Open", "GetInfo", "Read"}
           \/ calls[i].fn = "AllocatePages" /\ calls[i].type = "AllocateAnyPages"
    \/ Len(MapCalls) >= 1 /\ Failed(MapCalls[1])
    \/ Len(ExitCalls) = 2 /\ Failed(ExitCalls[2])

C3_KernelOnlyAfterSuccess ==
    /\ KernelInvoked =>
        /\ Succeeded("HandleProtocol", 2)
        /\ Succeeded("OpenVolume", 1)
        /\ Succeeded("Open", 1)
        /\ Succeeded("GetInfo", 1)
        /\ \E i \in 1..Len(AllocCalls) : ~Failed(AllocCalls[i])
        /\ Succeeded("Read", 1)
        /\ Len(MapCalls) >= 1 /\ ~Failed(MapCalls[1])
        /\ ExitSucceeded
    /\ StageFailed =>
        /\ pc \in BootFailedStates \cup {"CheckExit", "hlt_exit_failed"}
        /\ pc = "CheckExit" => EFI_ERROR(status)
        /\ ~KernelInvoked

C3_Witness ==
    /\ KernelInvoked
    /\ Len(AllocCalls) = 2
    /\ Len(ExitCalls) = 2
    /\ pc = "kernel"

(* ------------------------------------------------------------------ *)
(* C4: no run is halting or halted with the kernel file handle open.    *)
(* ------------------------------------------------------------------ *)
C4_KernelFileClosedAtHalt ==
    pc \in BootFailedStates \cup HltLoops => "KernelFile" \notin fwOpen

(* ------------------------------------------------------------------ *)
(* C5: once GetMemoryMap has been called, and so in every state in      *)
(* which ExitBootServices has returned success, neither the kernel file *)
(* nor the root directory is open.                                      *)
(* ------------------------------------------------------------------ *)
C5_NoHandleAfterExit ==
    (Len(MapCalls) >= 1 \/ ExitSucceeded \/ ~bootServices) => fwOpen = {}

C5_Witness ==
    /\ ExitSucceeded
    /\ fwOpen = {}
    /\ Len(CallsOf("Close")) = 2
    /\ Succeeded("OpenVolume", 1)
    /\ Succeeded("Open", 1)

(* ------------------------------------------------------------------ *)
(* C6: the page count passed to AllocatePages is ceil(S / 4096) for the *)
(* file size S that GetInfo reported, pageCount * 4096 >= S, and both   *)
(* allocation attempts pass the same count.                             *)
(* ------------------------------------------------------------------ *)
\* ceil(S / 4096) without wrap-around: the quotient is below 2^52, so the
\* increment cannot carry out of 64 bits
CeilPages(S) ==
    AddU64(Div4096(S), IF S[1] > 0 THEN U64Small(1) ELSE U64Zero)

\* P * 4096 >= S over the naturals: both sides written with seven limbs
Covers(P, S) ==
    ~LessFrom(<<0, P[1], P[2], P[3], P[4], P[5], P[6]>>,
              <<S[1], S[2], S[3], S[4], S[5], S[6], 0>>, 7)

\* between the fixed-address attempt and Read, KernelSize is still the
\* size GetInfo reported
C6_PageCountIsCeil ==
    pc \in {"AllocateAnyPages", "Read"} =>
        \A i \in 1..Len(AllocCalls) :
            /\ AllocCalls[i].pages = CeilPages(KernelSize)
            /\ Covers(AllocCalls[i].pages, KernelSize)
            /\ AllocCalls[i].pages = AllocCalls[1].pages

(* ------------------------------------------------------------------ *)
(* C7: the first AllocatePages call is AllocateAddress at 0x100000 with *)
(* EfiLoaderCode; an AllocateAnyPages call is made only after that      *)
(* call failed, once, with the same type and page count; when both      *)
(* fail the loader halts and Read is never called; when the             *)
(* fixed-address call succeeded KernelAddr is 0x100000.                 *)
(* ------------------------------------------------------------------ *)
C7_FixedThenAnyAddress ==
    /\ Len(AllocCalls) <= 2
    /\ Len(AllocCalls) >= 1 =>
        /\ AllocCalls[1].type = "AllocateAddress"
        /\ AllocCalls[1].memory = KERNEL_LOAD_ADDR
        /\ AllocCalls[1].memtype = "EfiLoaderCode"
        /\ ~Failed(AllocCalls[1]) => KernelAddr = KERNEL_LOAD_ADDR
    /\ Len(AllocCalls) = 2 =>
        /\ Failed(AllocCalls[1])
        /\ AllocCalls[2].type = "AllocateAnyPages"
        /\ AllocCalls[2].memtype = AllocCalls[1].memtype
        /\ AllocCalls[2].pages = AllocCalls[1].pages
        /\ Failed(AllocCalls[2]) =>
            /\ pc \in BootFailedStates
            /\ ReadCalls = <<>>
            /\ ~KernelInvoked
    /\ ReadCalls # <<>> => \E i \in 1..Len(AllocCalls) : ~Failed(AllocCalls[i])

C7_Witness ==
    /\ Len(AllocCalls) = 2
    /\ Failed(AllocCalls[1])
    /\ ~Failed(AllocCalls[2])
    /\ KernelAddr # KERNEL_LOAD_ADDR
    /\ KernelInvoked

(* ------------------------------------------------------------------ *)
(* C8: after a Read that returned an error, or that returned success    *)
(* with fewer bytes than requested, the loader is halting or halted,    *)
(* ExitBootServices is never called and the kernel is never invoked.    *)
(* ------------------------------------------------------------------ *)
ShortOrFailedRead ==
    \E i \in 1..Len(ReadCalls) :
        Failed(ReadCalls[i]) \/ ReadCalls[i].got # ReadCalls[i].size

C8_ShortReadIsFatal ==
    ShortOrFailedRead =>
        /\ pc \in BootFailedStates
        /\ ExitCalls = <<>>
        /\ ~KernelInvoked

(* ------------------------------------------------------------------ *)
(* C9: after a GetMemoryMap call that failed, the first one or the one  *)
(* of the retry, no ExitBootServices call follows and the kernel is     *)
(* not invoked.                                                         *)
(* ------------------------------------------------------------------ *)
C9_MapFailureIsFatal ==
    \A i \in 1..Len(calls) :
        (calls[i].fn = "GetMemoryMap" /\ Failed(calls[i])) =>
            /\ \A j \in (i+1)..Len(calls) : calls[j].fn # "ExitBootServices"
            /\ ~KernelInvoked

(* ------------------------------------------------------------------ *)
(* C10: once FindAcpiRsdp has run on a table that holds an entry with   *)
(* the ACPI 2.0 GUID and an entry with the ACPI 1.0 GUID, AcpiRsdp is   *)
(* the VendorTable of an entry with the ACPI 2.0 GUID; AcpiRsdp is the  *)
(* VendorTable of an ACPI 1.0 entry only when the table holds no entry  *)
(* with the ACPI 2.0 GUID.                                              *)
(* ------------------------------------------------------------------ *)
AcpiLookedUp ==
    pc \notin {"HandleProtocolLoadedImage", "HandleProtocolFileSystem",
               "OpenVolume", "OpenKernelFile", "GetInfo", "AllocateAddress",
               "AllocateAnyPages", "Read", "CloseKernelFile", "CloseRootDir",
               "FindAcpiRsdp", "halt", "hlt_boot_failed"}
    \/ (pc \in BootFailedStates /\ MapCalls # <<>>)
TablesTagged(guid) ==
    {ConfigurationTable[i].VendorTable :
        i \in {j \in DOMAIN ConfigurationTable : ConfigurationTable[j].VendorGuid = guid}}

C10_Acpi20Preferred ==
    AcpiLookedUp =>
        /\ (TablesTagged(Acpi20TableGuid) # {} /\ TablesTagged(Acpi10TableGuid) # {})
                => AcpiRsdp \in TablesTagged(Acpi20TableGuid)
        /\ AcpiRsdp \in TablesTagged(Acpi10TableGuid)
                => TablesTagged(Acpi20TableGuid) = {}

(* ------------------------------------------------------------------ *)
(* C11: when no entry of the configuration table carries the ACPI 2.0   *)
(* or the ACPI 1.0 GUID, the lookup does not halt the loader (it goes   *)
(* on to GetMemoryMap) and every boot info handed to the kernel has     *)
(* acpi_rsdp = 0.                                                        *)
(* ------------------------------------------------------------------ *)
NoAcpiTable ==
    TablesTagged(Acpi20TableGuid) = {} /\ TablesTagged(Acpi10TableGuid) = {}

C11_NoAcpiIsNotFatal ==
    NoAcpiTable =>
        /\ AcpiLookedUp =>
            /\ AcpiRsdp = 0
            /\ MapCalls = <<>> => pc = "GetMemoryMap"
        /\ \A i \in 1..Len(kernelCalls) : kernelCalls[i].info.acpi_rsdp = 0

(* ------------------------------------------------------------------ *)
(* C12: after a HandleProtocol call has failed the loader is halting or *)
(* halted, HandleProtocol is the only firmware function it has called,  *)
(* no file is open and no pages are allocated.                          *)
(* ------------------------------------------------------------------ *)
ProtocolLookupFailed ==
    \E i \in 1..Len(calls) : calls[i].fn = "HandleProtocol" /\ Failed(calls[i])

C12_LookupFailureHaltsEarly ==
    ProtocolLookupFailed =>
        /\ pc \in BootFailedStates
        /\ \A i \in 1..Len(calls) : calls[i].fn = "HandleProtocol"
        /\ fwOpen = {}
        /\ fwAlloc = {}
        /\ ~KernelInvoked

C12_Witness ==
    /\ pc = "hlt_boot_failed"
    /\ Len(calls) = 2
    /\ ~Failed(calls[1])
    /\ Failed(calls[2])

(* ------------------------------------------------------------------ *)
(* C13: from the failure of the retried ExitBootServices call on, the   *)
(* loader writes nothing to the serial port and calls no firmware       *)
(* function: its next step takes it into the hlt loop of line 318,      *)
(* which it never leaves.                                               *)
(* ------------------------------------------------------------------ *)
RetryFailed == Len(ExitCalls) = 2 /\ Failed(ExitCalls[2])

C13_SilentHaltAfterRetry ==
    [][RetryFailed =>
        /\ pc' = "hlt_exit_failed"
        /\ serial' = serial
        /\ calls' = calls
        /\ kernelCalls' = kernelCalls]_vars

C13_Witness ==
    /\ RetryFailed
    /\ pc = "hlt_exit_failed"
    /\ serial[Len(serial)] = <<"puts", "Exiting boot services...\n">>

(* ------------------------------------------------------------------ *)
(* C14: when every firmware call returns, each run ends up for good in  *)
(* one of two situations: control is in the kernel, or the loader sits  *)
(* in one of its hlt loops; efi_main never returns.                     *)
(* ------------------------------------------------------------------ *)
Terminal == pc = "kernel" \/ pc \in HltLoops

C14_HandoffOrHalt == <>[]Terminal

C14_Witness ==
    /\ pc = "hlt_boot_failed"
    /\ Len(MapCalls) = 1
    /\ Failed(MapCalls[1])

(* ------------------------------------------------------------------ *)
(* C15: the boot info the kernel is invoked with has the BOOTINFO       *)
(* magic, mem_map_addr = &MemoryMapBuffer, the four framebuffer fields  *)
(* and num_cpus 0, and acpi_rsdp = the value FindAcpiRsdp returned for  *)
(* the configuration table, after one exit call as after two.           *)
(* ------------------------------------------------------------------ *)
C15_BootInfoFields ==
    \A i \in 1..Len(kernelCalls) :
        /\ kernelCalls[i].arg = BootInfoAddr
        /\ kernelCalls[i].info.magic = U64(1615, 1252, 1097, 1269, 591, 4)
        /\ kernelCalls[i].info.mem_map_addr = MemoryMapBufferAddr
        /\ kernelCalls[i].info.framebuffer_addr = 0
        /\ kernelCalls[i].info.framebuffer_width = 0
        /\ kernelCalls[i].info.framebuffer_height = 0
        /\ kernelCalls[i].info.framebuffer_pitch = 0
        /\ kernelCalls[i].info.num_cpus = 0
        /\ kernelCalls[i].info.acpi_rsdp = AcpiRsdp
        /\ kernelCalls[i].info.acpi_rsdp = FindAcpiRsdp(ConfigurationTable)

C15_Witness ==
    /\ Len(kernelCalls) = 1
    /\ Len(ExitCalls) = 2
    /\ kernelCalls[1].info.acpi_rsdp # 0

(* ------------------------------------------------------------------ *)
(* C16: once the kernel has been invoked, the loader's only step is the *)
(* one into the hlt loop of line 336 when the kernel returns; from then *)
(* on nothing changes: no firmware call, no serial output, no second    *)
(* kernel invocation, no return from efi_main.                          *)
(* ------------------------------------------------------------------ *)
C16_KernelReturnHalts ==
    [][/\ pc = "kernel" =>
            /\ pc' \in {"kernel", "hlt_kernel_returned"}
            /\ calls' = calls
            /\ serial' = serial
            /\ kernelCalls' = kernelCalls
       /\ pc = "hlt_kernel_returned" =>
            /\ pc' = "hlt_kernel_returned"
            /\ calls' = calls
            /\ serial' = serial
            /\ kernelCalls' = kernelCalls]_vars

C16_Witness ==
    /\ pc = "hlt_kernel_returned"
    /\ Len(kernelCalls) = 1
    /\ calls[Len(calls)].fn = "ExitBootServices"

(* ------------------------------------------------------------------ *)
(* C17: after GetInfo has failed, EFI_BUFFER_TOO_SMALL included, the    *)
(* loader is halting or halted; GetInfo was called once, and            *)
(* AllocatePages, Read, GetMemoryMap and ExitBootServices not at all.   *)
(* ------------------------------------------------------------------ *)
GetInfoCalls == CallsOf("GetInfo")

C17_GetInfoFailureIsFatal ==
    (\E i \in 1..Len(GetInfoCalls) : Failed(GetInfoCalls[i])) =>
        /\ pc \in BootFailedStates
        /\ Len(GetInfoCalls) = 1
        /\ GetInfoCalls[1].size = FileInfoBufferSize
        /\ AllocCalls = <<>>
        /\ fwAlloc = {}
        /\ ReadCalls = <<>>
        /\ MapCalls = <<>>
        /\ ExitCalls = <<>>
        /\ ~KernelInvoked

C17_Witness ==
    /\ pc = "hlt_boot_failed"
    /\ Len(GetInfoCalls) = 1
    /\ GetInfoCalls[1].st = EFI_BUFFER_TOO_SMALL

(* ------------------------------------------------------------------ *)
(* C18: every ExitBootServices call passes the key that the latest      *)
(* successful GetMemoryMap call before it returned, and between that    *)
(* GetMemoryMap call and the exit call the loader calls no function     *)
(* that allocates, opens, reads, closes or looks up a protocol.         *)
(* ------------------------------------------------------------------ *)
MapChangingCalls ==
    {"HandleProtocol", "OpenVolume", "Open", "GetInfo", "AllocatePages",
     "Read", "Close"}
IsCapture(i) == calls[i].fn = "GetMemoryMap" /\ ~Failed(calls[i])

C18_ExitUsesLatestKey ==
    \A j \in 1..Len(calls) :
        calls[j].fn = "ExitBootServices" =>
            \E i \in 1..(j-1) :
                /\ IsCapture(i)
                /\ \A k \in (i+1)..(j-1) :
                    ~IsCapture(k) /\ calls[k].fn \notin MapChangingCalls
                /\ calls[j].key = calls[i].outKey

(* ------------------------------------------------------------------ *)
(* C19: the boot info the kernel is invoked with carries, as            *)
(* mem_map_size and mem_map_desc_size, the size and the descriptor size *)
(* that the GetMemoryMap call before the successful exit call reported, *)
(* after one exit call as after two.                                    *)
(* ------------------------------------------------------------------ *)
LastMapCall == MapCalls[Len(MapCalls)]

C19_BootInfoDescribesMap ==
    \A i \in 1..Len(kernelCalls) :
        /\ kernelCalls[i].info.mem_map_size = LastMapCall.outSize
        /\ kernelCalls[i].info.mem_map_desc_size = LastMapCall.outDesc

(* ------------------------------------------------------------------ *)
(* C20: the kernel is entered at the address that the successful        *)
(* AllocatePages call returned and that Read was given as its buffer:   *)
(* 0x100000 when the AllocateAddress call succeeded, otherwise the      *)
(* address the AllocateAnyPages call returned; the firmware holds that  *)
(* address as allocated to the loader.                                  *)
(* ------------------------------------------------------------------ *)
C20_EntryIsAllocatedAddress ==
    \A i \in 1..Len(kernelCalls) :
        /\ ~Failed(AllocCalls[Len(AllocCalls)])
        /\ kernelCalls[i].addr = AllocCalls[Len(AllocCalls)].memory
        /\ kernelCalls[i].addr = ReadCalls[1].buffer
        /\ kernelCalls[i].addr \in {a.addr : a \in fwAlloc}
        /\ kernelCalls[i].addr =
            IF ~Failed(AllocCalls[1]) THEN KERNEL_LOAD_ADDR ELSE AllocCalls[2].memory

C20_Witness ==
    /\ Len(kernelCalls) = 1
    /\ Len(AllocCalls) = 2
    /\ kernelCalls[1].addr \in AnyAddresses

(* ------------------------------------------------------------------ *)
(* C21: Read is called at most once; the call before it is an           *)
(* AllocatePages call that succeeded; it asks for exactly the FileSize  *)
(* that the successful GetInfo call reported, and its buffer is the     *)
(* address that AllocatePages call returned.                            *)
(* ------------------------------------------------------------------ *)
C21_SingleReadOfFileSize ==
    /\ Len(ReadCalls) <= 1
    /\ \A i \in 1..Len(calls) :
        calls[i].fn = "Read" =>
            /\ i > 1
            /\ calls[i - 1].fn = "AllocatePages"
            /\ ~Failed(calls[i - 1])
            /\ calls[i].buffer = calls[i - 1].memory
            /\ Len(GetInfoCalls) = 1
            /\ ~Failed(GetInfoCalls[1])
            /\ calls[i].size = GetInfoCalls[1].FileSize

C21_Witness ==
    /\ Len(ReadCalls) = 1
    /\ ReadCalls[1].size = U64Small(5000)
    /\ ReadCalls[1].got = U64Small(EFI_PAGE_SIZE)
    /\ ReadCalls[1].buffer \in AnyAddresses
    /\ KernelInvoked

(* ------------------------------------------------------------------ *)
(* C22: the pointer FindAcpiRsdp returns belongs to an entry whose      *)
(* VendorGuid equals the ACPI 2.0 or the ACPI 1.0 GUID in all four      *)
(* fields; it is the first entry in table order carrying the ACPI 2.0   *)
(* GUID, or, when there is none, the first carrying the ACPI 1.0 GUID;  *)
(* it is 0 when no entry carries either GUID.                           *)
(* ------------------------------------------------------------------ *)
EntriesTagged(guid) ==
    {i \in DOMAIN ConfigurationTable : ConfigurationTable[i].VendorGuid = guid}
FirstOf(S) == CHOOSE i \in S : \A j \in S : i <= j

C22_FullGuidMatch ==
    AcpiLookedUp =>
        /\ AcpiRsdp # 0 =>
            \E i \in EntriesTagged(Acpi20TableGuid) \cup EntriesTagged(Acpi10TableGuid) :
                ConfigurationTable[i].VendorTable = AcpiRsdp
        /\ EntriesTagged(Acpi20TableGuid) # {} =>
            AcpiRsdp = ConfigurationTable[FirstOf(EntriesTagged(Acpi20TableGuid))].VendorTable
        /\ (EntriesTagged(Acpi20TableGuid) = {} /\ EntriesTagged(Acpi10TableGuid) # {}) =>
            AcpiRsdp = ConfigurationTable[FirstOf(EntriesTagged(Acpi10TableGuid))].VendorTable
        /\ NoAcpiTable => AcpiRsdp = 0

(* ------------------------------------------------------------------ *)
(* C23: AllocatePages succeeds at most once and FreePages is never      *)
(* called; the pages a successful call returned stay allocated, at the  *)
(* same address and page count, in every later state, the halts after a *)
(* failed Read, a failed GetMemoryMap and a failed exit included.       *)
(* ------------------------------------------------------------------ *)
SucceededAllocs ==
    {i \in 1..Len(AllocCalls) : ~Failed(AllocCalls[i])}

C23_PagesNeverFreed ==
    /\ Cardinality(SucceededAllocs) <= 1
    /\ CallsOf("FreePages") = <<>>
    /\ fwAlloc = {[addr |-> AllocCalls[i].memory, pages |-> AllocCalls[i].pages] :
                    i \in SucceededAllocs}

C23_Witness ==
    /\ pc = "hlt_boot_failed"
    /\ Len(AllocCalls) = 2
    /\ Cardinality(fwAlloc) = 1
    /\ Len(ReadCalls) = 1
    /\ Failed(ReadCalls[1])

====
